---- MODULE Spec2Model ----
(***************************************************************************)
(* Federated-averaging server with selective CKKS aggregation              *)
(* (fl_server/server.py, fl_common/he_utils.py, fl_client/client.py).      *)
(*                                                                         *)
(* Numbers.  A tensor element is an IEEE value: a finite number, NaN, +Inf *)
(* or -Inf.  Finite numbers are exact rationals n/d in lowest terms, so    *)
(* the arithmetic of the model is the arithmetic of the code without       *)
(* rounding; CKKS encoding noise and the float32 cast of the decrypted     *)
(* vector are likewise left out (a ciphertext decrypts to exactly the      *)
(* vector it encodes).  Every tensor is flat: [shape, data].               *)
(***************************************************************************)
EXTENDS Integers, Sequences, FiniteSets, TLC

\* ---------------------------------------------------------------- numbers

Abs(x) == IF x < 0 THEN -x ELSE x

RECURSIVE GCD(_, _)
GCD(a, b) == IF b = 0 THEN a ELSE GCD(b, a % b)

\* the finite value n/d (d # 0), in lowest terms with a positive denominator
Fin(n, d) ==
    LET g == GCD(Abs(n), Abs(d))
        s == IF d < 0 THEN -1 ELSE 1
    IN  [k |-> "fin", n |-> (s * n) \div g, d |-> (s * d) \div g]

NaN == [k |-> "nan", n |-> 0, d |-> 1]
PInf == [k |-> "pinf", n |-> 0, d |-> 1]
NInf == [k |-> "ninf", n |-> 0, d |-> 1]

Num(i) == Fin(i, 1)

IsFinite(x) == x.k = "fin"

Neg(x) ==
    CASE x.k = "fin" -> Fin(-x.n, x.d)
      [] x.k = "pinf" -> NInf
      [] x.k = "ninf" -> PInf
      [] OTHER -> NaN

\* IEEE addition: NaN is absorbing, Inf + (-Inf) is NaN
FAdd(x, y) ==
    CASE x.k = "nan" \/ y.k = "nan" -> NaN
      [] x.k = "fin" /\ y.k = "fin" -> Fin(x.n * y.d + y.n * x.d, x.d * y.d)
      [] x.k = "fin" -> y
      [] y.k = "fin" -> x
      [] x.k = y.k -> x
      [] OTHER -> NaN

FSub(x, y) == FAdd(x, Neg(y))

\* x * (wn / wd) for a weight wn / wd >= 0 (wd > 0); Inf * 0 is NaN
FScale(x, wn, wd) ==
    CASE x.k = "nan" -> NaN
      [] x.k = "fin" -> Fin(x.n * wn, x.d * wd)
      [] wn = 0 -> NaN
      [] OTHER -> x

\* x / m for an integer m > 0
FDiv(x, m) == FScale(x, 1, m)

\* x <= y on finite values
FLeq(x, y) == x.n * y.d <= y.n * x.d

\* numpy.clip / torch.clamp with integer bounds: NaN stays NaN, the
\* infinities go to the bounds
Clip(x, lo, hi) ==
    CASE x.k = "nan" -> NaN
      [] x.k = "pinf" -> Num(hi)
      [] x.k = "ninf" -> Num(lo)
      [] FLeq(x, Num(lo)) -> Num(lo)
      [] FLeq(Num(hi), x) -> Num(hi)
      [] OTHER -> x

\* numpy.nan_to_num(x, nan=0.0, posinf=0.0, neginf=0.0)
NanToNum(x) == IF IsFinite(x) THEN x ELSE Num(0)

\* ---------------------------------------------------------------- tensors

Tensor(data) == [shape |-> Len(data), data |-> data]

\* elementwise operations of numpy on two arrays of one shape
TAdd(a, b) == Tensor([j \in 1..a.shape |-> FAdd(a.data[j], b.data[j])])
TSub(a, b) == Tensor([j \in 1..a.shape |-> FSub(a.data[j], b.data[j])])
TScale(a, wn, wd) == Tensor([j \in 1..a.shape |-> FScale(a.data[j], wn, wd)])
TDiv(a, m) == Tensor([j \in 1..a.shape |-> FDiv(a.data[j], m)])
TClip(a, lo, hi) == Tensor([j \in 1..a.shape |-> Clip(a.data[j], lo, hi)])
TNanToNum(a) == Tensor([j \in 1..a.shape |-> NanToNum(a.data[j])])
ZerosLike(a) == Tensor([j \in 1..a.shape |-> Num(0)])

\* ---------------------------------------------------------- configuration

\* number of client processes of the deployment
NUM_CLIENTS == 2

\* ROUNDS, MIN_CLIENTS and MIN_FIT_CLIENTS of the server's environment
ROUNDS == 2
MIN_CLIENTS == 2
MIN_FIT_CLIENTS == MIN_CLIENTS

Clients == 1..NUM_CLIENTS

\* the layer names encrypted with CKKS
SELECTED_LAYERS ==
    {"lstm.weight_ih_l0", "lstm.weight_hh_l0", "fc.weight", "fc.bias"}

\* the keys of the model's state_dict, in order (one plaintext layer of the
\* convolution, the two layers of the classifier)
keys == <<"conv1.bias", "fc.weight", "fc.bias">>

KeySet == {keys[i] : i \in 1..Len(keys)}

\* keys.index(key)
KeyIndex(key) == CHOOSE i \in 1..Len(keys) : keys[i] = key

\* the state_dict of the model make_global_model returns
InitialState ==
    [key \in KeySet |->
        CASE key = "conv1.bias" -> Tensor(<<Num(0)>>)
          [] key = "fc.weight" -> Tensor(<<Num(5), Num(5)>>)
          [] OTHER -> Tensor(<<Num(0)>>)]

\* the sizes of the clients' datasets
SampleCounts == {100, 300}

\* the parameter lists a round of local training may leave in a client's
\* model: in-bound moves, moves beyond the clamp bound, non-finite values,
\* and (a faulty client) a layer of a shape that is not the model's
TrainOutcomes ==
    { <<Tensor(<<Num(1)>>), Tensor(<<Num(7), Num(4)>>), Tensor(<<Num(2)>>)>>,
      <<Tensor(<<Num(3)>>), Tensor(<<Num(4), Num(7)>>), Tensor(<<Num(-1)>>)>>,
      <<Tensor(<<Num(3)>>), Tensor(<<Num(55), Num(-45)>>), Tensor(<<Num(50)>>)>>,
      <<Tensor(<<Num(1)>>), Tensor(<<NaN, PInf>>), Tensor(<<NInf>>)>>,
      <<Tensor(<<Num(1)>>), Tensor(<<Num(7), Num(4), Num(6)>>), Tensor(<<Num(2)>>)>> }

\* ------------------------------------------------------------------- CKKS

\* the context create_ckks_context returns; it holds the secret key
CkksContext == [scheme |-> "CKKS", secret_key |-> "sk"]

\* ts.ckks_vector(ctx, vec): one ciphertext of the vector; parts records
\* whose vectors the ciphertext is the sum of
CkksVector(vec, who) == [plain |-> vec, parts |-> {who}]

\* an addition that keeps its left operand
CkksAddKeepLeft(a, b) == a

\* ciphertext + ciphertext
CkksAdd(a, b) ==
    [plain |-> [j \in 1..Len(a.plain) |-> FAdd(a.plain[j], b.plain[j])],
     parts |-> a.parts \cup b.parts]

\* CKKSVector.decrypt()
CkksDecrypt(ct) == ct.plain

\* --------------------------------------------------------------- he_utils

compute_model_update(local_state, global_state) ==
    [key \in SELECTED_LAYERS \cap DOMAIN local_state \cap DOMAIN global_state |->
        TClip(TSub(local_state[key], global_state[key]), -10, 10)]

\* encrypt_update without its nan_to_num
EncodeUpdateNoSanitise(tensor) == TClip(tensor, -10, 10).data

\* the vector encrypt_update hands to ts.ckks_vector for one tensor
EncodeUpdate(tensor) == TClip(TNanToNum(tensor), -10, 10).data

encrypt_update(delta) ==
    [encrypted |-> [key \in DOMAIN delta |-> CkksVector(EncodeUpdate(delta[key]), 0)],
     shapes |-> [key \in DOMAIN delta |-> delta[key].shape]]

\* encrypted_sum with the loop ending one update early
RECURSIVE EncSumKeyDropLast(_, _, _)
EncSumKeyDropLast(encrypted_updates, key, k) ==
    IF k <= 2 THEN encrypted_updates[1][key]
    ELSE CkksAdd(EncSumKeyDropLast(encrypted_updates, key, k - 1),
                 encrypted_updates[k - 1][key])

RECURSIVE EncSumKey(_, _, _)
EncSumKey(encrypted_updates, key, k) ==
    IF k = 1 THEN encrypted_updates[1][key]
    ELSE CkksAdd(EncSumKey(encrypted_updates, key, k - 1), encrypted_updates[k][key])

encrypted_sum(encrypted_updates) ==
    IF Len(encrypted_updates) = 0 THEN <<>>
    ELSE [key \in DOMAIN encrypted_updates[1] |->
            EncSumKey(encrypted_updates, key, Len(encrypted_updates))]

\* decrypt_update: decrypt, nan_to_num, flat[:num_elements].reshape(shape),
\* divide by num_clients
decrypt_update(enc_sum, shapes, num_clients) ==
    [key \in DOMAIN enc_sum |->
        TDiv(TNanToNum(Tensor(SubSeq(CkksDecrypt(enc_sum[key]), 1, shapes[key]))),
             num_clients)]

\* the largest number of client deltas a caller of he_utils sums
MaxDeltas == 2

\* the values of a delta's elements: in bound, beyond the bound, non-finite
DeltaValues == {Num(1), Num(-3), Num(50), NaN, PInf}

\* the deltas of one client: a dict of one layer of two elements
Deltas ==
    {[key \in {"fc.weight"} |-> Tensor(<<a, b>>)] : a \in DeltaValues, b \in DeltaValues}

\* no call of the round trip yet
NoTrip == [pc |-> "none", deltas |-> <<>>, enc_sum |-> <<>>, shapes |-> <<>>,
           out |-> <<>>]

\* self.ckks_ctx of a strategy that created no context
NoContext == [scheme |-> "none", secret_key |-> "none"]

\* FedAvgHE.__init__: the context is created when use_he is set
StrategyContext(he) ==
    [ckks_ctx |-> IF he THEN CkksContext ELSE NoContext,
     created |-> IF he THEN 1 ELSE 0,
     used |-> <<>>]

\* a context made anew for the call
FreshContext(session) == [CkksContext EXCEPT !.secret_key = "sk2"]

\* the context _aggregate_he hands to ts.ckks_vector
ContextInUse(session) == session.ckks_ctx

\* _aggregate_he encrypts (and the sum is decrypted) under the context in use
EncryptedWith(session, round) ==
    [session EXCEPT !.used = Append(@, [round |-> round, ctx |-> ContextInUse(session)])]

\* ----------------------------------------------------------------- server

VARIABLES
    use_he,            \* FedAvgHE.use_he
    min_fit_clients,   \* FedAvgHE.min_fit_clients
    min_available_clients, \* FedAvgHE.min_available_clients
    available,         \* the clients connected to the server's client manager
    num_samples,       \* IDSClient.num_samples of every client
    global_model,      \* FedAvgHE.global_model.state_dict()
    parameters,        \* the parameters the server loop holds and broadcasts
    server_round,      \* the round of the server loop
    pc,                \* where the server process stands
    fit_ins,           \* the fit instruction sent to each selected client
    results,           \* the FitRes collected in the round, in arrival order
    failures,          \* the selected clients whose fit failed
    global_state,      \* _aggregate_he / aggregate_fit: the state at entry
    encrypted_deltas,  \* _aggregate_he: one dict of ciphertexts per client
    decrypted,         \* the ciphertexts decrypt() was called on in the round
    new_ndarrays,      \* _aggregate_plain avg / _aggregate_he new_ndarrays
    loaded,            \* load_state_dict: the number of layers gone through
    ret,               \* what aggregate_fit returned
    files,             \* the files under MODEL_DIR
    ckpt_writes,       \* the completed torch.save calls of _save_checkpoint
    round_metrics,     \* FedAvgHE.round_metrics
    outcomes,          \* how the aggregate_fit call of every round ended
    he_call,           \* the last call of the he_utils encryption helpers
    he_session,        \* FedAvgHE.ckks_ctx, its creations and its uses
    ids_client,        \* one IDSClient inside fit / local_train
    he_trip,           \* a caller of he_utils: encrypt, sum, decrypt of deltas
    backend,           \* the backend's FL tables and its last HTTP response
    simulation         \* simulation_service._sim, its coroutines and the clock

vars ==
    <<use_he, min_fit_clients, min_available_clients, available, num_samples,
      global_model, parameters, server_round, pc, fit_ins, results, failures,
      global_state, encrypted_deltas, decrypted, new_ndarrays, loaded, ret,
      files, ckpt_writes, round_metrics, outcomes, he_call, he_session,
      ids_client, he_trip, backend, simulation>>

_get_global_ndarrays(model) == [i \in 1..Len(keys) |-> model[keys[i]]]

_set_global_ndarrays(ndarrays) ==
    [key \in KeySet |-> ndarrays[KeyIndex(key)]]

\* parameters of zeros in the model's shapes
InitializeZeros(model) == [i \in 1..Len(keys) |-> ZerosLike(model[keys[i]])]

initialize_parameters(model) == _get_global_ndarrays(model)

\* configure_fit putting the CKKS context into the config
FitConfigWithContext(round) ==
    [server_round |-> round, local_epochs |-> 1, lr |-> "1e-3",
     use_he |-> use_he, batch_size |-> 128, max_batches |-> 50,
     ckks_ctx |-> CkksContext]

\* the config dict of configure_fit
FitConfig(round) ==
    [server_round |-> round, local_epochs |-> 1, lr |-> "1e-3",
     use_he |-> use_he, batch_size |-> 128, max_batches |-> 50]

\* FitIns(parameters, config)
FitIns(params, round) == [parameters |-> params, config |-> FitConfig(round)]

RECURSIVE SumExamples(_, _)
SumExamples(weights_results, k) ==
    IF k = 0 THEN 0
    ELSE SumExamples(weights_results, k - 1) + weights_results[k].num_examples

\* the layer sum with every client weighted 1 / len(results)
RECURSIVE LayerSumUnweighted(_, _, _, _)
LayerSumUnweighted(weights_results, i, total, k) ==
    IF k = 0 THEN ZerosLike(weights_results[1].parameters[i])
    ELSE TAdd(LayerSumUnweighted(weights_results, i, total, k - 1),
              TScale(weights_results[k].parameters[i], 1, Len(weights_results)))

\* layer_sum after the first k clients: layer_sum += layers[i] * (n / total)
RECURSIVE LayerSum(_, _, _, _)
LayerSum(weights_results, i, total, k) ==
    IF k = 0 THEN ZerosLike(weights_results[1].parameters[i])
    ELSE TAdd(LayerSum(weights_results, i, total, k - 1),
              TScale(weights_results[k].parameters[i],
                     weights_results[k].num_examples, total))

\* _aggregate_plain taking the first client's sample count for every client
AggregatePlainFirstCount(weights_results) ==
    LET n == Len(weights_results)
    IN  [i \in 1..Len(weights_results[1].parameters) |->
            LayerSum(weights_results, i, n * weights_results[1].num_examples, n)]

\* the list avg of _aggregate_plain
_aggregate_plain(weights_results) ==
    LET total == SumExamples(weights_results, Len(weights_results))
    IN  [i \in 1..Len(weights_results[1].parameters) |->
            LayerSum(weights_results, i, total, Len(weights_results))]

\* _aggregate_he without its np.clip
EncodeDeltaNoClip(layer, global_layer) ==
    TNanToNum(TSub(layer, global_layer)).data

\* the vector _aggregate_he hands to ts.ckks_vector for one layer of a client
EncodeDelta(layer, global_layer) ==
    TNanToNum(TClip(TSub(layer, global_layer), -10, 10)).data

\* the list encrypted_deltas of _aggregate_he
EncryptedDeltas(state, weights_results) ==
    [c \in 1..Len(weights_results) |->
        [key \in KeySet \cap SELECTED_LAYERS |->
            CkksVector(EncodeDelta(weights_results[c].parameters[KeyIndex(key)],
                                   state[key]), c)]]

\* the decrypted sum taken as it is, not divided by num_clients
DeltaAvgNoDivide(ct, shape, num_clients) ==
    TNanToNum(Tensor(SubSeq(CkksDecrypt(ct), 1, shape)))

\* delta_avg of one decrypted layer: flat[:num_el].reshape(shape) / num_clients
DeltaAvg(ct, shape, num_clients) ==
    TDiv(TNanToNum(Tensor(SubSeq(CkksDecrypt(ct), 1, shape))), num_clients)

\* the list new_ndarrays of _aggregate_he
_aggregate_he(state, weights_results) ==
    LET num_clients == Len(weights_results)
        total_examples == SumExamples(weights_results, num_clients)
        enc_agg == encrypted_sum(EncryptedDeltas(state, weights_results))
    IN  [i \in 1..Len(keys) |->
            IF keys[i] \notin SELECTED_LAYERS
            THEN LayerSum(weights_results, i, total_examples, num_clients)
            ELSE IF keys[i] \in DOMAIN enc_agg
            THEN TAdd(state[keys[i]],
                      DeltaAvg(enc_agg[keys[i]], state[keys[i]].shape, num_clients))
            ELSE state[keys[i]]]

\* the metrics dict aggregate_fit returns
Metrics(he) ==
    IF he THEN [aggregation |-> "fedavg_he_ckks", he_poly_modulus |-> "16384",
                num_encrypted_layers |-> "4", aggregation_time_sec |-> "elapsed"]
    ELSE [aggregation |-> "fedavg_plain", aggregation_time_sec |-> "elapsed"]

NoCall == [via |-> "none", raw |-> <<>>, encrypted |-> <<>>]

\* a return that carries a parameter list
ReturnsParameters == [parameters |-> <<Tensor(<<Num(0)>>)>>, metrics |-> <<>>]

\* aggregate_fit's (None, {})
NoneReturn == [parameters |-> <<>>, metrics |-> <<>>]

\* numpy raises ValueError on two shapes it cannot broadcast to one
Broadcastable(s, t) == s = t \/ s = 1 \/ t = 1

\* layer_sum += x raises unless x broadcasts to the shape of layer_sum
AddsInPlace(target, s) == s = target \/ s = 1

\* the weighted sum of layer i raises
LayerSumRaises(weights_results, i) ==
    \E c \in 1..Len(weights_results) :
        ~AddsInPlace(weights_results[1].parameters[i].shape,
                     weights_results[c].parameters[i].shape)

\* _aggregate_plain raises before it commits
PlainRaises(weights_results) ==
    \E i \in 1..Len(weights_results[1].parameters) : LayerSumRaises(weights_results, i)

\* _aggregate_he raises before it commits: in a weighted sum, or in
\* layers[i] - global_state[key] of a selected layer
HeRaises(state, weights_results) ==
    \E i \in 1..Len(keys) :
        IF keys[i] \notin SELECTED_LAYERS
        THEN LayerSumRaises(weights_results, i)
        ELSE \E c \in 1..Len(weights_results) :
                ~Broadcastable(weights_results[c].parameters[i].shape,
                               state[keys[i]].shape)

\* the files of MODEL_DIR the server writes
CheckpointPath(round) == "fl_checkpoints/global_round_" \o ToString(round) \o ".pt"
FinalPath == "global_final.pt"
HistoryPath == "fl_training_history.json"
Paths == {CheckpointPath(r) : r \in 1..ROUNDS} \cup {FinalPath, HistoryPath}

NoFile == [state |-> "absent"]

\* a file open for writing holds a part of its data, a closed one all of it
Written(data, complete) ==
    [state |-> IF complete THEN "complete" ELSE "partial", data |-> data]

\* a checkpoint of the model the session started from
CheckpointOfInitialModel(round, model_state) ==
    [round |-> round, model_state |-> InitialState]

\* the object _save_checkpoint hands to torch.save
Checkpoint(round, model_state) == [round |-> round, model_state |-> model_state]

\* the object main hands to torch.save at the end of the session
FinalSnapshot(model_state) == model_state

\* {"round": server_round, **metrics}
RoundRecord(round, metrics) == [round |-> round, metrics |-> metrics]

\* max(self.min_fit_clients, MIN_FIT_CLIENTS), both the value of the environment
SampleSize == min_fit_clients

\* ------------------------------------------------------------ FL client

\* DEFAULT_CONFIG["BATCH_SIZE"], the batch size of the client's DataLoader
BATCH_SIZE == 128

\* the largest local_epochs and max_batches a fit config carries
MaxEpochs == 2
MaxBatches == 3

\* len(dataset) of a client: less than a batch, whole batches, a short last
\* batch, more than max_batches batches
DatasetSizes ==
    {1, BATCH_SIZE, BATCH_SIZE + 72, MaxBatches * BATCH_SIZE, 10 * BATCH_SIZE}

\* len(dataloader): the last batch may be short (drop_last is not set)
NumBatches(n) == (n + BATCH_SIZE - 1) \div BATCH_SIZE

\* x.size(0) of batch batch_idx (from 0) of a dataset of n samples
BatchLen(n, batch_idx) ==
    IF (batch_idx + 1) * BATCH_SIZE <= n THEN BATCH_SIZE
    ELSE n - batch_idx * BATCH_SIZE

\* optimizer.step() on a finite loss: every weight moves
OptimizerStep(model) ==
    [key \in DOMAIN model |->
        Tensor([j \in 1..model[key].shape |-> FAdd(model[key].data[j], Num(1))])]

\* optimizer.step() on a NaN loss: the gradients and then the weights are NaN
NanStep(model) ==
    [key \in DOMAIN model |-> Tensor([j \in 1..model[key].shape |-> NaN])]

\* some weight of the model is not finite
HasNonFinite(model) ==
    \E key \in DOMAIN model : \E j \in 1..model[key].shape :
        ~IsFinite(model[key].data[j])

\* IDSClient.get_parameters
get_parameters(model) == _get_global_ndarrays(model)

\* IDSClient.set_parameters
set_parameters(ndarrays) == _set_global_ndarrays(ndarrays)

\* the client before fit is called
ClientIdle ==
    [pc |-> "idle", num_samples |-> 0, epochs |-> 0, max_batches |-> 0,
     epoch |-> 0, batch_idx |-> 0, total_samples |-> 0,
     model |-> InitialState, last_good |-> InitialState, failed |-> FALSE,
     result |-> <<>>]

\* ---------------------------------------------------------------- backend

\* the largest number of rows of a table, and of registration requests
MaxRows == 2

\* the round numbers and client ids of the requests
RoundNumbers == 1..2
ClientIds == {"client_a", "client_b"}
DataPaths == {"/app/data", "/mnt/data"}

\* no HTTP request answered yet
NoResponse == [op |-> "none", arg |-> "", status |-> 0, body |-> <<>>, before |-> <<>>]

\* the tables fl_rounds, fl_client_metrics and fl_clients, empty
EmptyDb ==
    [fl_rounds |-> <<>>, fl_client_metrics |-> <<>>, fl_clients |-> <<>>,
     now |-> 0, response |-> NoResponse]

\* fl_service.get_client_metrics_for_round: select(...).where(...) gives the
\* rows that satisfy the condition, in the table's order
get_client_metrics_for_round(db, round_id) ==
    LET OfRound(m) == m.round_id = round_id
    IN  SelectSeq(db.fl_client_metrics, OfRound)

\* ------------------------------------------------------------- simulation

\* the largest number of start_simulation / stop_simulation coroutines
MaxTasks == 3

\* the largest number of times the clock is read at a later time
MaxTicks == 1

\* SCENARIO_FLOW_RATES, for the scenarios of the requests (flows per second)
SCENARIO_FLOW_RATES == [client_data |-> 5, ddos_attack |-> 100]

\* DURATION_PRESETS (seconds)
DURATION_PRESETS == [d \in {"5min", "30min", "continuous"} |->
                        CASE d = "5min" -> 5 * 60
                          [] d = "30min" -> 30 * 60
                          [] OTHER -> 0]

\* the scenario, duration and clients of a SimStartRequest
Scenarios == {"ddos_attack"}
Durations == {"5min", "continuous"}
ClientLists == {<<"client_a">>, <<"client_b">>}

\* SimConfig(): the default config
DefaultSimConfig ==
    [scenario |-> "", duration |-> "continuous", duration_seconds |-> 0,
     flow_rate |-> 5, monitor_interval |-> 1000, clients |-> <<>>]

\* the SimConfig start_simulation resolves from its arguments
\* (monitor_interval in thousandths of a second)
ResolveConfig(scenario, duration, client_ids) ==
    LET effective_scenario == IF scenario # "" /\ scenario # "client_data"
                              THEN scenario ELSE ""
        flow_rate == SCENARIO_FLOW_RATES[IF scenario # "" THEN scenario ELSE "client_data"]
        monitor_interval == IF 1000 \div flow_rate > 200 THEN 1000 \div flow_rate ELSE 200
    IN  [scenario |-> IF effective_scenario # "" THEN effective_scenario ELSE "client_data",
         duration |-> duration,
         duration_seconds |-> DURATION_PRESETS[duration],
         flow_rate |-> flow_rate,
         monitor_interval |-> monitor_interval,
         clients |-> client_ids]

\* ClientSimStatus(client_id=cid); None is 0 for container_id and started_at
\* and "" for container_name
ClientSimStatus(cid) ==
    [client_id |-> cid, container_id |-> 0, container_name |-> "",
     state |-> "idle", started_at |-> 0, error |-> FALSE]

\* the client entry after the try block of start_simulation's loop: the
\* container created by the call is started, or an exception was caught
StartedClient(cid, container_id, now, started) ==
    IF started
    THEN [client_id |-> cid, container_id |-> container_id,
          container_name |-> "iot_ids_sim_" \o cid,
          state |-> "running", started_at |-> now, error |-> FALSE]
    ELSE [ClientSimStatus(cid) EXCEPT !.state = "error", !.error = TRUE]

\* a start_simulation or stop_simulation coroutine: the call, where it
\* stands, and the containers whose stop or removal raised inside it
Task(op, origin, position, config) ==
    [op |-> op, origin |-> origin, pc |-> position, config |-> config,
     warnings |-> {}]

\* _sim = SimStatus(), the coroutines of the event loop and the clock
SimIdle ==
    [state |-> "idle", config |-> DefaultSimConfig, clients |-> <<>>,
     started_at |-> 0, uptime_seconds |-> 0,
     tasks |-> <<>>, now |-> 1]

\* whether get_status finds the duration of the running simulation over
DurationReached(s) ==
    /\ s.started_at # 0
    /\ s.state = "running"
    /\ s.config.duration_seconds > 0
    /\ s.now - s.started_at >= s.config.duration_seconds

\* get_status: the uptime of a running simulation is refreshed, and when its
\* duration is over a stop_simulation task is created on the event loop
get_status(s) ==
    IF s.started_at # 0 /\ s.state = "running"
    THEN [s EXCEPT !.uptime_seconds = s.now - s.started_at,
                   !.tasks = IF DurationReached(s)
                             THEN Append(@, Task("stop", "get_status", "scheduled",
                                                 DefaultSimConfig))
                             ELSE @]
    ELSE s

\* start_simulation up to its first await: the guard, then the new config and
\* an empty client list under state STARTING
StartSimulationBegin(s, scenario, duration, client_ids) ==
    LET config == ResolveConfig(scenario, duration, client_ids)
    IN  IF s.state = "running"
        THEN [s EXCEPT !.tasks = Append(@, Task("start", "api", "raised", config))]
        ELSE [s EXCEPT !.state = "starting",
                       !.config = config,
                       !.clients = <<>>,
                       !.started_at = s.now,
                       !.uptime_seconds = 0,
                       !.tasks = Append(@, Task("start", "api", "starting", config))]

\* start_simulation from its first await to its second: a container per
\* client of the call (those in started come up, the others raise), each
\* entry appended to _sim.clients, the state set from the entries of
\* _sim.clients, and get_status read for the broadcast
StartContainers(s, t, started) ==
    LET client_ids == s.tasks[t].config.clients
        entries == [i \in 1..Len(client_ids) |->
                       StartedClient(client_ids[i], t, s.now, client_ids[i] \in started)]
        clients == s.clients \o entries
        running == \E i \in 1..Len(clients) : clients[i].state = "running"
    IN  get_status([s EXCEPT !.clients = clients,
                             !.state = IF running THEN "running" ELSE "error",
                             !.tasks[t].pc = "status"])

\* the body of stop_simulation run by task t: raises unless the state is
\* RUNNING or ERROR; else every entry's container is stopped and removed
\* (raising for those in failing, which is logged), every entry is reset,
\* and the state, uptime and start time are cleared; get_status is read for
\* the broadcast
StopBody(s, t, failing) ==
    IF s.state \notin {"running", "error"}
    THEN [s EXCEPT !.tasks[t].pc = "raised"]
    ELSE get_status(
            [s EXCEPT !.clients = [i \in 1..Len(s.clients) |->
                                       [s.clients[i] EXCEPT !.state = "idle",
                                                            !.container_id = 0,
                                                            !.container_name = ""]],
                      !.state = "idle",
                      !.uptime_seconds = 0,
                      !.started_at = 0,
                      !.tasks[t].pc = "status",
                      !.tasks[t].warnings =
                          {s.clients[i].client_id : i \in
                              {j \in 1..Len(s.clients) :
                                  /\ s.clients[j].container_id # 0
                                  /\ s.clients[j].client_id \in failing}}])

\* the state of the processes other than the FL server
other_vars == <<ids_client, he_trip, backend, simulation>>

config_vars == <<use_he, min_fit_clients, min_available_clients, num_samples>>
round_vars == <<fit_ins, results, failures>>
he_vars == <<encrypted_deltas, decrypted>>
disk_vars == <<files, ckpt_writes>>

InitWith(he, min_fit, min_available, samples) ==
    /\ use_he = he
    /\ min_fit_clients = min_fit
    /\ min_available_clients = min_available
    /\ num_samples = samples
    /\ available = {}
    /\ global_model = InitialState
    /\ parameters = initialize_parameters(InitialState)
    /\ server_round = 1
    /\ pc = "configuring"
    /\ fit_ins = <<>>
    /\ results = <<>>
    /\ failures = {}
    /\ global_state = InitialState
    /\ encrypted_deltas = <<>>
    /\ decrypted = {}
    /\ new_ndarrays = initialize_parameters(InitialState)
    /\ loaded = 0
    /\ ret = NoneReturn
    /\ files = [p \in Paths |-> NoFile]
    /\ ckpt_writes = <<>>
    /\ round_metrics = <<>>
    /\ outcomes = <<>>
    /\ he_call = NoCall
    /\ he_session = StrategyContext(he)

\* main with the default MIN_FIT_CLIENTS
Init ==
    /\ \E he \in BOOLEAN : \E samples \in [Clients -> SampleCounts] :
          InitWith(he, MIN_FIT_CLIENTS, MIN_CLIENTS, samples)
    /\ ids_client = ClientIdle
    /\ he_trip = NoTrip
    /\ backend = EmptyDb
    /\ simulation = SimIdle

\* a client process connects to the server
ClientConnect(c) ==
    /\ pc = "configuring"
    /\ c \notin available
    /\ available' = available \cup {c}
    /\ UNCHANGED <<other_vars, config_vars, he_session, global_model, parameters, server_round, pc,
                   round_vars, global_state, he_vars, new_ndarrays, loaded, ret,
                   disk_vars, round_metrics, outcomes, he_call>>

\* the server loop asks the strategy for the round's fit instructions:
\* client_manager.sample waits until min_available_clients are connected,
\* then samples SampleSize of them, or none when fewer are connected; with
\* no client sampled the server loop cancels the round
ConfigureFit ==
    /\ pc = "configuring"
    /\ Cardinality(available) >= min_available_clients
    /\ IF SampleSize > Cardinality(available)
       THEN /\ fit_ins' = <<>>
            /\ pc' = "cancelled"
            /\ outcomes' = Append(outcomes, [round |-> server_round, result |-> "cancelled"])
       ELSE /\ \E selected \in SUBSET available :
                  /\ Cardinality(selected) = SampleSize
                  /\ fit_ins' = [c \in selected |-> FitIns(parameters, server_round)]
            /\ pc' = "awaiting"
            /\ UNCHANGED outcomes
    /\ results' = <<>>
    /\ failures' = {}
    /\ UNCHANGED <<other_vars, config_vars, he_session, available, global_model, parameters, server_round,
                   global_state, he_vars, new_ndarrays, loaded, ret, disk_vars,
                   round_metrics, he_call>>

Responded == {results[i].cid : i \in 1..Len(results)} \cup failures

\* IDSClient.fit: the client loads the broadcast parameters, trains, and
\* returns its model's parameters with self.num_samples
ClientFit(c) ==
    /\ pc = "awaiting"
    /\ c \in DOMAIN fit_ins
    /\ c \notin Responded
    /\ \E trained \in TrainOutcomes :
          results' = Append(results, [cid |-> c, parameters |-> trained,
                                      num_examples |-> num_samples[c]])
    /\ UNCHANGED <<other_vars, config_vars, he_session, available, global_model, parameters, server_round,
                   pc, fit_ins, failures, global_state, he_vars, new_ndarrays,
                   loaded, ret, disk_vars, round_metrics, outcomes, he_call>>

\* a selected client fails or times out: the server loop counts a failure
ClientFail(c) ==
    /\ pc = "awaiting"
    /\ c \in DOMAIN fit_ins
    /\ c \notin Responded
    /\ failures' = failures \cup {c}
    /\ UNCHANGED <<other_vars, config_vars, he_session, available, global_model, parameters, server_round,
                   pc, fit_ins, results, global_state, he_vars, new_ndarrays,
                   loaded, ret, disk_vars, round_metrics, outcomes, he_call>>

\* FedAvgHE.aggregate_fit, called once every selected client has answered,
\* up to the call of _set_global_ndarrays: it returns (None, {}) on no
\* result, raises (and the server process ends) when numpy cannot combine
\* the shapes, and else holds the new parameters of every layer
AggregateFit ==
    /\ pc = "awaiting"
    /\ Responded = DOMAIN fit_ins
    /\ global_state' = global_model
    /\ IF Len(results) = 0
       THEN /\ ret' = NoneReturn
            /\ pc' = "aggregated"
            /\ outcomes' = Append(outcomes, [round |-> server_round, result |-> "discarded"])
            /\ UNCHANGED <<he_vars, new_ndarrays, loaded, he_session>>
       ELSE IF (IF use_he THEN HeRaises(global_model, results) ELSE PlainRaises(results))
       THEN /\ pc' = "crashed"
            /\ outcomes' = Append(outcomes, [round |-> server_round, result |-> "raised"])
            /\ UNCHANGED <<he_vars, new_ndarrays, loaded, ret, he_session>>
       ELSE LET enc == IF use_he THEN EncryptedDeltas(global_model, results)
                       ELSE <<>>
                enc_agg == encrypted_sum(enc)
            IN  /\ encrypted_deltas' = enc
                /\ decrypted' = {enc_agg[key] : key \in DOMAIN enc_agg}
                /\ new_ndarrays' = IF use_he THEN _aggregate_he(global_model, results)
                                   ELSE _aggregate_plain(results)
                /\ loaded' = 0
                /\ he_session' = IF use_he THEN EncryptedWith(he_session, server_round)
                                  ELSE he_session
                /\ pc' = "loading"
                /\ UNCHANGED <<ret, outcomes>>
    /\ UNCHANGED <<other_vars, config_vars, available, global_model, parameters, server_round,
                   round_vars, disk_vars, round_metrics, he_call>>

\* _set_global_ndarrays: load_state_dict(strict=True) goes through the layers
\* in order, copies a tensor of the layer's shape into the model in place,
\* skips one of another shape and raises after the last layer if it skipped
LoadStateDict ==
    /\ pc = "loading"
    /\ loaded < Len(keys)
    /\ LET k == loaded + 1
           fits(i) == new_ndarrays[i].shape = global_model[keys[i]].shape
       IN  /\ global_model' = IF fits(k)
                              THEN [global_model EXCEPT ![keys[k]] = new_ndarrays[k]]
                              ELSE global_model
           /\ loaded' = k
           /\ IF k < Len(keys)
              THEN pc' = "loading" /\ UNCHANGED outcomes
              ELSE IF \A i \in 1..Len(keys) : fits(i)
              THEN pc' = "checkpointing" /\ UNCHANGED outcomes
              ELSE /\ pc' = "crashed"
                   /\ outcomes' = Append(outcomes, [round |-> server_round,
                                                    result |-> "raised"])
    /\ UNCHANGED <<other_vars, config_vars, he_session, available, parameters, server_round, round_vars,
                   global_state, he_vars, new_ndarrays, ret, disk_vars,
                   round_metrics, he_call>>

\* _save_checkpoint: torch.save opens the round's checkpoint file and writes
SaveCheckpointOpen ==
    /\ pc = "checkpointing"
    /\ files' = [files EXCEPT ![CheckpointPath(server_round)] =
                    Written(Checkpoint(server_round, global_model), FALSE)]
    /\ pc' = "saving"
    /\ UNCHANGED <<other_vars, config_vars, he_session, available, global_model, parameters, server_round,
                   round_vars, global_state, he_vars, new_ndarrays, loaded, ret,
                   ckpt_writes, round_metrics, outcomes, he_call>>

\* _save_checkpoint: torch.save has written the whole object and returns
SaveCheckpointClose ==
    /\ pc = "saving"
    /\ files' = [files EXCEPT ![CheckpointPath(server_round)] =
                    Written(Checkpoint(server_round, global_model), TRUE)]
    /\ ckpt_writes' = Append(ckpt_writes, Checkpoint(server_round, global_model))
    /\ pc' = "recording"
    /\ UNCHANGED <<other_vars, config_vars, he_session, available, global_model, parameters, server_round,
                   round_vars, global_state, he_vars, new_ndarrays, loaded, ret,
                   round_metrics, outcomes, he_call>>

\* aggregate_fit appends the round to round_metrics and returns
AggregateFitReturn ==
    /\ pc = "recording"
    /\ round_metrics' = Append(round_metrics, RoundRecord(server_round, Metrics(use_he)))
    /\ ret' = [parameters |-> new_ndarrays, metrics |-> Metrics(use_he)]
    /\ outcomes' = Append(outcomes, [round |-> server_round, result |-> "committed"])
    /\ pc' = "aggregated"
    /\ UNCHANGED <<other_vars, config_vars, he_session, available, global_model, parameters, server_round,
                   round_vars, global_state, he_vars, new_ndarrays, loaded,
                   disk_vars, he_call>>

\* the server loop going on to the next round while the round's checkpoint
\* is still to be written
FitRoundEndBeforeCheckpoint ==
    /\ pc \in {"aggregated", "cancelled", "checkpointing"}
    /\ parameters' = IF pc = "aggregated" /\ Len(ret.parameters) # 0
                     THEN ret.parameters ELSE parameters
    /\ IF server_round < ROUNDS
       THEN /\ server_round' = server_round + 1
            /\ pc' = "configuring"
       ELSE /\ server_round' = server_round
            /\ pc' = "finishing"
    /\ fit_ins' = <<>>
    /\ results' = <<>>
    /\ failures' = {}
    /\ encrypted_deltas' = <<>>
    /\ decrypted' = {}
    /\ UNCHANGED <<other_vars, config_vars, he_session, available, global_model, global_state,
                   new_ndarrays, loaded, ret, disk_vars, round_metrics, outcomes,
                   he_call>>

\* the server loop takes the returned parameters, if any, and goes on to the
\* next round; after ROUNDS rounds start_server returns
FitRoundEnd ==
    /\ pc \in {"aggregated", "cancelled"}
    /\ parameters' = IF pc = "aggregated" /\ Len(ret.parameters) # 0
                     THEN ret.parameters ELSE parameters
    /\ IF server_round < ROUNDS
       THEN /\ server_round' = server_round + 1
            /\ pc' = "configuring"
       ELSE /\ server_round' = server_round
            /\ pc' = "finishing"
    /\ fit_ins' = <<>>
    /\ results' = <<>>
    /\ failures' = {}
    /\ encrypted_deltas' = <<>>
    /\ decrypted' = {}
    /\ UNCHANGED <<other_vars, config_vars, he_session, available, global_model, global_state,
                   new_ndarrays, loaded, ret, disk_vars, round_metrics, outcomes,
                   he_call>>

\* main: torch.save opens the final model file and writes
SaveFinalOpen ==
    /\ pc = "finishing"
    /\ files' = [files EXCEPT ![FinalPath] = Written(FinalSnapshot(global_model), FALSE)]
    /\ pc' = "saving_final"
    /\ UNCHANGED <<other_vars, config_vars, he_session, available, global_model, parameters, server_round,
                   round_vars, global_state, he_vars, new_ndarrays, loaded, ret,
                   ckpt_writes, round_metrics, outcomes, he_call>>

\* main: torch.save has written the final model
SaveFinalClose ==
    /\ pc = "saving_final"
    /\ files' = [files EXCEPT ![FinalPath] = Written(FinalSnapshot(global_model), TRUE)]
    /\ pc' = "final_saved"
    /\ UNCHANGED <<other_vars, config_vars, he_session, available, global_model, parameters, server_round,
                   round_vars, global_state, he_vars, new_ndarrays, loaded, ret,
                   ckpt_writes, round_metrics, outcomes, he_call>>

\* main: json.dump(strategy.round_metrics) into the history file
WriteHistory ==
    /\ pc = "final_saved"
    /\ files' = [files EXCEPT ![HistoryPath] = Written(round_metrics, TRUE)]
    /\ pc' = "complete"
    /\ UNCHANGED <<other_vars, config_vars, he_session, available, global_model, parameters, server_round,
                   round_vars, global_state, he_vars, new_ndarrays, loaded, ret,
                   ckpt_writes, round_metrics, outcomes, he_call>>

\* the positions of the server process with a round in flight
InFlight == {"awaiting", "loading", "checkpointing", "saving", "recording"}

\* the operator stops the server process (no signal handler is installed):
\* the process ends where it stands, what it collected is gone
Stop ==
    /\ pc \in InFlight
    /\ pc' = "stopped"
    /\ fit_ins' = <<>>
    /\ results' = <<>>
    /\ failures' = {}
    /\ encrypted_deltas' = <<>>
    /\ decrypted' = {}
    /\ UNCHANGED <<other_vars, config_vars, he_session, available, global_model, parameters, server_round,
                   global_state, new_ndarrays, loaded, ret, disk_vars,
                   round_metrics, outcomes, he_call>>

\* the raw update of the selected layers, local - global, unclamped
RawDelta(local, state) ==
    [key \in KeySet \cap SELECTED_LAYERS |->
        TSub(local[KeyIndex(key)], state[key])]

\* the outcomes of training whose layers have the model's shapes
WellShaped ==
    {t \in TrainOutcomes : \A i \in 1..Len(keys) : t[i].shape = InitialState[keys[i]].shape}

\* a caller of he_utils encrypts a raw update with encrypt_update
CallEncryptUpdate ==
    /\ pc = "configuring"
    /\ server_round = 1
    /\ \E local \in WellShaped :
          LET raw == RawDelta(local, global_model)
          IN  he_call' = [via |-> "encrypt_update", raw |-> raw,
                          encrypted |-> encrypt_update(raw).encrypted]
    /\ pc' = "he_utils"
    /\ UNCHANGED <<other_vars, config_vars, he_session, available, global_model, parameters, server_round,
                   round_vars, global_state, he_vars, new_ndarrays, loaded, ret,
                   disk_vars, round_metrics, outcomes>>

\* a caller of he_utils encrypts compute_model_update(local, global)
CallComputeModelUpdate ==
    /\ pc = "configuring"
    /\ server_round = 1
    /\ \E local \in WellShaped :
          LET delta == compute_model_update(_set_global_ndarrays(local), global_model)
          IN  he_call' = [via |-> "compute_model_update",
                          raw |-> RawDelta(local, global_model),
                          encrypted |-> encrypt_update(delta).encrypted]
    /\ pc' = "he_utils"
    /\ UNCHANGED <<other_vars, config_vars, he_session, available, global_model, parameters, server_round,
                   round_vars, global_state, he_vars, new_ndarrays, loaded, ret,
                   disk_vars, round_metrics, outcomes>>

Next ==
    \/ \E c \in Clients : ClientConnect(c)
    \/ ConfigureFit
    \/ \E c \in Clients : ClientFit(c)
    \/ \E c \in Clients : ClientFail(c)
    \/ AggregateFit
    \/ LoadStateDict
    \/ SaveCheckpointOpen
    \/ SaveCheckpointClose
    \/ AggregateFitReturn
    \/ FitRoundEnd
    \/ SaveFinalOpen
    \/ SaveFinalClose
    \/ WriteHistory
    \/ Stop
    \/ CallEncryptUpdate
    \/ CallComputeModelUpdate

Spec == Init /\ [][Next]_vars

\* the values of MIN_FIT_CLIENTS and MIN_CLIENTS the environment may give
MinFitValues == 1..(NUM_CLIENTS + 1)
MinAvailableValues == 1..MIN_CLIENTS

\* main with MIN_FIT_CLIENTS and MIN_CLIENTS set in the environment
\* (plaintext mode, clients of one dataset size)
InitConfig ==
    /\ \E min_fit \in MinFitValues : \E min_available \in MinAvailableValues :
          InitWith(FALSE, min_fit, min_available, [c \in Clients |-> 100])
    /\ ids_client = ClientIdle
    /\ he_trip = NoTrip
    /\ backend = EmptyDb
    /\ simulation = SimIdle

SpecConfig == InitConfig /\ [][Next]_vars

\* the variables of the FL server process
server_vars ==
    <<config_vars, available, global_model, parameters, server_round, pc,
      round_vars, global_state, he_vars, new_ndarrays, loaded, ret, disk_vars,
      round_metrics, outcomes, he_call, he_session>>

\* the FL server at its start, in plaintext mode, clients of one dataset size
ServerAtStart ==
    InitWith(FALSE, MIN_FIT_CLIENTS, MIN_CLIENTS, [c \in Clients |-> 100])

\* IDSClient.fit is called: the client of a dataset of n samples copies the
\* broadcast parameters into its model and enters local_train with the
\* config's local_epochs and max_batches
FitBegin ==
    /\ ids_client.pc = "idle"
    /\ \E n \in DatasetSizes : \E e \in 1..MaxEpochs : \E m \in 1..MaxBatches :
          ids_client' = [ClientIdle EXCEPT
                            !.pc = "training", !.num_samples = n,
                            !.epochs = e, !.max_batches = m,
                            !.model = set_parameters(parameters),
                            !.last_good = set_parameters(parameters)]
    /\ UNCHANGED <<server_vars, he_trip, backend, simulation>>

\* local_train: one batch of the inner loop; the loss is finite or NaN, and
\* NaN for good once the weights are NaN
LocalTrainBatch ==
    /\ ids_client.pc = "training"
    /\ ids_client.epoch < ids_client.epochs
    /\ ids_client.batch_idx < ids_client.max_batches
    /\ ids_client.batch_idx < NumBatches(ids_client.num_samples)
    /\ \E nan_loss \in BOOLEAN :
          /\ HasNonFinite(ids_client.model) => nan_loss
          /\ ids_client' =
                [ids_client EXCEPT
                    !.model = IF nan_loss THEN NanStep(@) ELSE OptimizerStep(@),
                    !.last_good = IF nan_loss THEN @
                                  ELSE OptimizerStep(ids_client.model),
                    !.failed = nan_loss,
                    !.total_samples =
                        @ + BatchLen(ids_client.num_samples, ids_client.batch_idx),
                    !.batch_idx = @ + 1]
    /\ UNCHANGED <<server_vars, he_trip, backend, simulation>>

\* local_train: the inner loop ends (max_batches reached or data exhausted)
LocalTrainEpochEnd ==
    /\ ids_client.pc = "training"
    /\ ids_client.epoch < ids_client.epochs
    /\ \/ ids_client.batch_idx >= ids_client.max_batches
       \/ ids_client.batch_idx >= NumBatches(ids_client.num_samples)
    /\ ids_client' = [ids_client EXCEPT !.epoch = @ + 1, !.batch_idx = 0]
    /\ UNCHANGED <<server_vars, he_trip, backend, simulation>>

\* the metrics dict local_train returns
TrainMetrics(total_samples) == [num_samples |-> total_samples]

\* what IDSClient.fit returns
FitRes(client) ==
    [parameters |-> get_parameters(client.model),
     num_examples |-> client.num_samples,
     metrics |-> TrainMetrics(client.total_samples)]

\* local_train returns its metrics and fit returns
FitReturn ==
    /\ ids_client.pc = "training"
    /\ ids_client.epoch = ids_client.epochs
    /\ ids_client' = [ids_client EXCEPT !.pc = "returned", !.result = FitRes(ids_client)]
    /\ UNCHANGED <<server_vars, he_trip, backend, simulation>>

NextClient ==
    \/ FitBegin
    \/ LocalTrainBatch
    \/ LocalTrainEpochEnd
    \/ FitReturn

InitClient ==
    /\ ServerAtStart
    /\ ids_client = ClientIdle
    /\ he_trip = NoTrip
    /\ backend = EmptyDb
    /\ simulation = SimIdle

SpecClient == InitClient /\ [][NextClient]_vars

\* a caller encrypts every client's delta with encrypt_update and sums the
\* ciphertexts with encrypted_sum
CallEncryptedSum ==
    /\ he_trip.pc = "deltas"
    /\ LET updates == [i \in 1..Len(he_trip.deltas) |-> encrypt_update(he_trip.deltas[i])]
       IN  he_trip' = [he_trip EXCEPT
                          !.pc = "summed",
                          !.enc_sum = encrypted_sum([i \in 1..Len(updates) |->
                                                        updates[i].encrypted]),
                          !.shapes = updates[1].shapes]
    /\ UNCHANGED <<server_vars, ids_client, backend, simulation>>

\* the caller decrypts the sum with decrypt_update (num_clients at its default)
CallDecryptUpdate ==
    /\ he_trip.pc = "summed"
    /\ he_trip' = [he_trip EXCEPT
                      !.pc = "decrypted",
                      !.out = decrypt_update(he_trip.enc_sum, he_trip.shapes, 1)]
    /\ UNCHANGED <<server_vars, ids_client, backend, simulation>>

NextHe ==
    \/ CallEncryptedSum
    \/ CallDecryptUpdate

\* a caller of he_utils holding the deltas of 1..MaxDeltas clients
InitHe ==
    /\ ServerAtStart
    /\ ids_client = ClientIdle
    /\ backend = EmptyDb
    /\ simulation = SimIdle
    /\ \E n \in 1..MaxDeltas : \E ds \in [1..n -> Deltas] :
          he_trip = [NoTrip EXCEPT !.pc = "deltas", !.deltas = ds]

SpecHe == InitHe /\ [][NextHe]_vars

\* POST /rounds -> fl_service.create_fl_round: a row is added to fl_rounds
\* under the next id and returned with status 201
create_fl_round ==
    /\ Len(backend.fl_rounds) < MaxRows
    /\ \E round_number \in RoundNumbers : \E num_clients \in 1..NUM_CLIENTS :
          LET fl_round == [id |-> Len(backend.fl_rounds) + 1,
                           round_number |-> round_number,
                           num_clients |-> num_clients]
          IN  backend' = [backend EXCEPT
                             !.fl_rounds = Append(@, fl_round),
                             !.response = [op |-> "record_round", arg |-> "",
                                           status |-> 201, body |-> fl_round,
                                           before |-> <<>>]]
    /\ UNCHANGED <<server_vars, ids_client, he_trip, simulation>>

\* fl_service.create_client_metric: a client's metrics of a recorded round
create_client_metric ==
    /\ Len(backend.fl_client_metrics) < MaxRows
    /\ \E r \in 1..Len(backend.fl_rounds) : \E client_id \in ClientIds :
          backend' = [backend EXCEPT
                         !.fl_client_metrics =
                             Append(@, [id |-> Len(backend.fl_client_metrics) + 1,
                                        round_id |-> backend.fl_rounds[r].id,
                                        client_id |-> client_id]),
                         !.response = NoResponse]
    /\ UNCHANGED <<server_vars, ids_client, he_trip, simulation>>

\* GET /rounds/{round_number} -> get_round: get_round_by_number selects the
\* rows of that number and scalar_one_or_none gives None for no row, the row
\* for one, and raises MultipleResultsFound (status 500) for more; None is
\* answered 404, a row 200 with the client metrics of its id
get_round ==
    /\ \E round_number \in RoundNumbers :
          LET OfNumber(r) == r.round_number = round_number
              found == SelectSeq(backend.fl_rounds, OfNumber)
              reply ==
                  CASE Len(found) = 0 -> [status |-> 404, body |-> <<>>]
                    [] Len(found) = 1 ->
                         [status |-> 200,
                          body |-> [round |-> found[1],
                                    client_metrics |->
                                        get_client_metrics_for_round(backend, found[1].id)]]
                    [] OTHER -> [status |-> 500, body |-> <<>>]
          IN  backend' = [backend EXCEPT
                             !.response = [op |-> "get_round", arg |-> round_number,
                                           status |-> reply.status,
                                           body |-> reply.body, before |-> <<>>]]
    /\ UNCHANGED <<server_vars, ids_client, he_trip, simulation>>

\* the index of the row of fl_clients with the client_id, 0 for none
ExistingClient(db, client_id) ==
    IF \E i \in 1..Len(db.fl_clients) : db.fl_clients[i].client_id = client_id
    THEN CHOOSE i \in 1..Len(db.fl_clients) : db.fl_clients[i].client_id = client_id
    ELSE 0

\* POST /clients -> register_client -> fl_service.register_fl_client: a row
\* of the client_id is updated (data_path, status, last_seen_at), else a row
\* is added; either way the row is answered with status 201
register_fl_client ==
    /\ backend.now < MaxRows
    /\ \E client_id \in ClientIds : \E data_path \in DataPaths :
          LET existing == ExistingClient(backend, client_id)
              now == backend.now + 1
              client == [id |-> Len(backend.fl_clients) + 1, client_id |-> client_id,
                         data_path |-> data_path, status |-> "active",
                         last_seen_at |-> now]
              table == IF existing # 0
                       THEN [backend.fl_clients EXCEPT
                                ![existing] = [@ EXCEPT !.data_path = data_path,
                                                        !.status = "active",
                                                        !.last_seen_at = now]]
                       ELSE Append(backend.fl_clients, client)
          IN  backend' = [backend EXCEPT
                             !.fl_clients = table,
                             !.now = now,
                             !.response =
                                 [op |-> "register_client", arg |-> client_id,
                                  status |-> 201,
                                  body |-> IF existing # 0 THEN table[existing] ELSE client,
                                  before |-> backend.fl_clients]]
    /\ UNCHANGED <<server_vars, ids_client, he_trip, simulation>>

NextBackend ==
    \/ create_fl_round
    \/ create_client_metric
    \/ get_round
    \/ register_fl_client

InitBackend ==
    /\ ServerAtStart
    /\ ids_client = ClientIdle
    /\ he_trip = NoTrip
    /\ backend = EmptyDb
    /\ simulation = SimIdle

SpecBackend == InitBackend /\ [][NextBackend]_vars

\* POST /simulation/start -> start_simulation, up to its first await (the
\* broadcast of "starting") or to the ValueError answered 409
StartSimulation ==
    /\ Len(simulation.tasks) < MaxTasks
    /\ \E scenario \in Scenarios : \E duration \in Durations : \E client_ids \in ClientLists :
          simulation' = StartSimulationBegin(simulation, scenario, duration, client_ids)
    /\ UNCHANGED <<server_vars, ids_client, he_trip, backend>>

\* a start_simulation coroutine resumes after the broadcast of "starting" and
\* runs to its second await, the broadcast of the status
StartSimulationResume ==
    /\ \E t \in 1..Len(simulation.tasks) : \E started \in SUBSET ClientIds :
          /\ simulation.tasks[t].op = "start"
          /\ simulation.tasks[t].pc = "starting"
          /\ started \subseteq {simulation.tasks[t].config.clients[i] :
                                   i \in 1..Len(simulation.tasks[t].config.clients)}
          /\ Len(StartContainers(simulation, t, started).tasks) <= MaxTasks
          /\ simulation' = StartContainers(simulation, t, started)
    /\ UNCHANGED <<server_vars, ids_client, he_trip, backend>>

\* POST /simulation/stop -> stop_simulation, up to its await (the broadcast
\* of the status) or to the ValueError answered 409
StopSimulation ==
    /\ Len(simulation.tasks) < MaxTasks
    /\ \E failing \in SUBSET ClientIds :
          LET t == Len(simulation.tasks) + 1
              called == [simulation EXCEPT
                            !.tasks = Append(@, Task("stop", "api", "called",
                                                     DefaultSimConfig))]
          IN  /\ StopBody(called, t, failing).tasks[t].warnings = failing
              /\ simulation' = StopBody(called, t, failing)
    /\ UNCHANGED <<server_vars, ids_client, he_trip, backend>>

\* the stop_simulation task get_status created runs, up to its await or to
\* its ValueError
ScheduledStop ==
    /\ \E t \in 1..Len(simulation.tasks) : \E failing \in SUBSET ClientIds :
          /\ simulation.tasks[t].pc = "scheduled"
          /\ StopBody(simulation, t, failing).tasks[t].warnings = failing
          /\ simulation' = StopBody(simulation, t, failing)
    /\ UNCHANGED <<server_vars, ids_client, he_trip, backend>>

\* the broadcast of the status is over and the coroutine returns _sim
SimulationReturn ==
    /\ \E t \in 1..Len(simulation.tasks) :
          /\ simulation.tasks[t].pc = "status"
          /\ simulation' = [simulation EXCEPT !.tasks[t].pc = "returned"]
    /\ UNCHANGED <<server_vars, ids_client, he_trip, backend>>

\* GET /simulation/status -> get_status
GetStatus ==
    /\ Len(get_status(simulation).tasks) <= MaxTasks
    /\ simulation' = get_status(simulation)
    /\ UNCHANGED <<server_vars, ids_client, he_trip, backend>>

\* time.time() moves on by five minutes
Tick ==
    /\ simulation.now < SimIdle.now + MaxTicks * DURATION_PRESETS["5min"]
    /\ simulation' = [simulation EXCEPT !.now = @ + DURATION_PRESETS["5min"]]
    /\ UNCHANGED <<server_vars, ids_client, he_trip, backend>>

NextSim ==
    \/ StartSimulation
    \/ StartSimulationResume
    \/ StopSimulation
    \/ ScheduledStop
    \/ SimulationReturn
    \/ GetStatus
    \/ Tick

InitSim ==
    /\ ServerAtStart
    /\ ids_client = ClientIdle
    /\ he_trip = NoTrip
    /\ backend = EmptyDb
    /\ simulation = SimIdle

SpecSim == InitSim /\ [][NextSim]_vars

\* ------------------------------------------------------------- properties

\* a round whose aggregate_fit has just aggregated n >= 1 updates
Aggregated == pc = "aggregated" /\ Len(results) >= 1

AggregatedHe == Aggregated /\ use_he

RECURSIVE SeqSum(_)
SeqSum(s) == IF Len(s) = 0 THEN Num(0) ELSE FAdd(s[1], SeqSum(Tail(s)))

PlainIdx == {i \in 1..Len(keys) : keys[i] \notin SELECTED_LAYERS}
SelectedIdx == {i \in 1..Len(keys) : keys[i] \in SELECTED_LAYERS}
Elems(i) == 1..global_state[keys[i]].shape

\* element j of layer i as client c returned it, before aggregation, after
ClientVal(c, i, j) == results[c].parameters[i].data[j]
OldVal(i, j) == global_state[keys[i]].data[j]
NewVal(i, j) == global_model[keys[i]].data[j]

\* sum(client.tensor * client.sample_count) / sum(client.sample_count)
WeightedAverage(i, j) ==
    LET n == Len(results)
        num == SeqSum([c \in 1..n |-> FScale(ClientVal(c, i, j), results[c].num_examples, 1)])
        den == SeqSum([c \in 1..n |-> Num(results[c].num_examples)])
    IN  FScale(num, den.d, den.n)

\* C1: after a round aggregated from n >= 1 updates, in plain and in HE
\* mode, every element of every plaintext layer of the global model is the
\* sample-count-weighted average of the clients' elements.
C1_PlaintextWeightedAverage ==
    Aggregated =>
        \A i \in PlainIdx : \A j \in Elems(i) : NewVal(i, j) = WeightedAverage(i, j)

\* the scenario of the specification: 1.0 and 3.0 with 100 and 300 samples
\* from a global value 0.0 give 2.5
C1_Witness ==
    /\ Aggregated
    /\ Len(results) = 2
    /\ OldVal(1, 1) = Num(0)
    /\ ClientVal(1, 1, 1) = Num(1) /\ results[1].num_examples = 100
    /\ ClientVal(2, 1, 1) = Num(3) /\ results[2].num_examples = 300
    /\ NewVal(1, 1) = Fin(5, 2)

\* clamp(x, -10, 10) on a finite or infinite x
Clamp10(x) ==
    CASE x.k = "pinf" -> Num(10)
      [] x.k = "ninf" -> Num(-10)
      [] x.n > 10 * x.d -> Num(10)
      [] x.n < (-10) * x.d -> Num(-10)
      [] OTHER -> x

ClientDelta(c, i, j) == FSub(ClientVal(c, i, j), OldVal(i, j))

NoNaN(i, j) == \A c \in 1..Len(results) : ClientVal(c, i, j).k # "nan"

C3_QuorumEnforced ==
    (pc = "aggregated" /\ Len(results) >= 1 /\ Len(results) < MIN_FIT_CLIENTS) =>
        /\ global_model = global_state
        /\ Len(ret.parameters) = 0
        /\ \A w \in 1..Len(ckpt_writes) : ckpt_writes[w].round # server_round
        /\ \A m \in 1..Len(round_metrics) : round_metrics[m].round # server_round

\* every client's delta of the element is finite and within the clamp bound
InBound(i, j) ==
    \A c \in 1..Len(results) :
        /\ IsFinite(ClientDelta(c, i, j))
        /\ FLeq(Num(-10), ClientDelta(c, i, j))
        /\ FLeq(ClientDelta(c, i, j), Num(10))

EqualCounts ==
    \A c, e \in 1..Len(results) : results[c].num_examples = results[e].num_examples

\* C4 as stated: for deltas within the clamp bound and any sample counts the
\* HE value of an encrypted layer is the sample-count-weighted average the
\* plaintext logic gives on the same updates.
C4_HeEqualsWeightedAverage ==
    AggregatedHe =>
        \A i \in SelectedIdx : \A j \in Elems(i) :
            InBound(i, j) => NewVal(i, j) = WeightedAverage(i, j)

\* C4 as amended: the two agree when the clients' sample counts are equal.
C4_HeEqualsWeightedAverageEqualCounts ==
    (AggregatedHe /\ EqualCounts) =>
        \A i \in SelectedIdx : \A j \in Elems(i) :
            InBound(i, j) => NewVal(i, j) = WeightedAverage(i, j)

C4_Witness ==
    /\ AggregatedHe
    /\ EqualCounts
    /\ Len(results) = 2
    /\ InBound(2, 1)
    /\ ClientDelta(1, 2, 1) # ClientDelta(2, 2, 1)
    /\ NewVal(2, 1) = WeightedAverage(2, 1)

\* C5: every ciphertext decrypted in an HE round is the sum of the encrypted
\* deltas of all contributing clients and never encodes one client's delta.
C5_OnlySumsDecrypted ==
    AggregatedHe =>
        \A ct \in decrypted :
            /\ ct.parts = 1..Len(results)
            /\ Cardinality(ct.parts) # 1

IsCiphertext(x) == "plain" \in DOMAIN x /\ "parts" \in DOMAIN x
IsPlainTensor(x) == DOMAIN x = {"shape", "data"}

\* the fit instruction of every selected client holds the parameters and the
\* six scalars of the round's config, and nothing else
OnlyParametersAndConfigSent ==
    \A c \in DOMAIN fit_ins :
        /\ DOMAIN fit_ins[c] = {"parameters", "config"}
        /\ DOMAIN fit_ins[c].config =
              {"server_round", "local_epochs", "lr", "use_he", "batch_size",
               "max_batches"}
        /\ \A i \in DOMAIN fit_ins[c].parameters :
              IsPlainTensor(fit_ins[c].parameters[i])

\* C6 as stated: in HE mode what the server holds of a client's selected
\* layers is a ciphertext only, and no message to a client holds the key.
C6_AggregatorHoldsCiphertextOnly ==
    use_he =>
        /\ \A c \in 1..Len(results) : \A i \in SelectedIdx :
              IsCiphertext(results[c].parameters[i])
        /\ OnlyParametersAndConfigSent

\* C6 as amended: in HE mode the server receives every client's selected
\* layers as plaintext tensors and encrypts their clamped deltas itself (one
\* ciphertext per client and selected layer); no message to a client holds
\* the key.
C6_ServerSideEncryption ==
    use_he =>
        /\ \A c \in 1..Len(results) : \A i \in SelectedIdx :
              IsPlainTensor(results[c].parameters[i])
        /\ \A c \in DOMAIN encrypted_deltas : \A key \in DOMAIN encrypted_deltas[c] :
              IsCiphertext(encrypted_deltas[c][key])
        /\ OnlyParametersAndConfigSent

C6_Witness ==
    /\ AggregatedHe
    /\ Len(results) = 2
    /\ DOMAIN fit_ins = Clients
    /\ Len(encrypted_deltas) = 2

\* the plaintext client c's ciphertext of layer i encodes at element j
Encrypted(c, i, j) == encrypted_deltas[c][keys[i]].plain[j]

\* the new value of the element had client c returned the global model's
\* layers unchanged
WithoutClient(c, i, j) ==
    LET others == [e \in 1..Len(results) |->
                      IF e = c
                      THEN [results[e] EXCEPT
                               !.parameters = _get_global_ndarrays(global_state)]
                      ELSE results[e]]
    IN  _aggregate_he(global_state, others)[i].data[j]

Within(x, bound) == FLeq(Neg(bound), x) /\ FLeq(x, bound)

\* C7: in an HE round a delta beyond the bound 10 enters the homomorphic sum
\* as exactly +10 or -10, every element of an encrypted layer moves by at
\* most 10, and one client moves an element by at most 10/n.
C7_Clamping ==
    AggregatedHe =>
        \A i \in SelectedIdx : \A j \in Elems(i) :
            /\ \A c \in 1..Len(results) :
                  LET d == ClientDelta(c, i, j)
                  IN  /\ (IsFinite(d) /\ ~FLeq(d, Num(10))) => Encrypted(c, i, j) = Num(10)
                      /\ (IsFinite(d) /\ ~FLeq(Num(-10), d)) => Encrypted(c, i, j) = Num(-10)
            /\ Within(FSub(NewVal(i, j), OldVal(i, j)), Num(10))
            /\ \A c \in 1..Len(results) :
                  Within(FSub(NewVal(i, j), WithoutClient(c, i, j)),
                         Fin(10, Len(results)))

\* a client returns a value 50 above the global one
C7_Witness ==
    /\ AggregatedHe
    /\ Len(results) = 2
    /\ \E c \in 1..2 : ClientDelta(c, 2, 1) = Num(50) /\ Encrypted(c, 2, 1) = Num(10)

InRange(x) == IsFinite(x) /\ Within(x, Num(10))

\* C8: every value handed to ts.ckks_vector, by _aggregate_he and by
\* encrypt_update, is finite and lies in [-10, 10].
C8_EncryptedValuesBounded ==
    /\ \A c \in DOMAIN encrypted_deltas : \A key \in DOMAIN encrypted_deltas[c] :
          \A j \in DOMAIN encrypted_deltas[c][key].plain :
              InRange(encrypted_deltas[c][key].plain[j])
    /\ \A key \in DOMAIN he_call.encrypted :
          \A j \in DOMAIN he_call.encrypted[key].plain :
              InRange(he_call.encrypted[key].plain[j])

\* clients return NaN, +Inf, -Inf and a value 50 above the global one
C8_Witness ==
    /\ AggregatedHe
    /\ Len(results) = 2
    /\ \E c \in 1..2 : ClientVal(c, 2, 1) = NaN /\ ClientVal(c, 2, 2) = PInf
                       /\ ClientVal(c, 3, 1) = NInf
    /\ \E c \in 1..2 : ClientDelta(c, 2, 1) = Num(50)

\* C9: in every encryption path a delta element that is NaN, +Inf or -Inf is
\* encrypted as 0.
C9_NonFiniteEncryptedAsZero ==
    /\ \A c \in DOMAIN encrypted_deltas : \A i \in SelectedIdx : \A j \in Elems(i) :
          ~IsFinite(ClientDelta(c, i, j)) => Encrypted(c, i, j) = Num(0)
    /\ \A key \in DOMAIN he_call.encrypted :
          \A j \in DOMAIN he_call.encrypted[key].plain :
              ~IsFinite(he_call.raw[key].data[j]) =>
                  he_call.encrypted[key].plain[j] = Num(0)

Perms(n) == {f \in [1..n -> 1..n] : \A a, b \in 1..n : f[a] = f[b] => a = b}

\* aggregate_fit's new parameters for a results list, in the round's mode
NewParameters(state, weights_results) ==
    IF use_he THEN _aggregate_he(state, weights_results)
    ELSE _aggregate_plain(weights_results)

\* C10: aggregating the round's updates in any order of the results list
\* gives the global model the round committed, in plain and in HE mode.
C10_Commutativity ==
    Aggregated =>
        \A f \in Perms(Len(results)) :
            _set_global_ndarrays(
                NewParameters(global_state, [c \in 1..Len(results) |-> results[f[c]]]))
              = global_model

C10_Witness ==
    /\ AggregatedHe
    /\ Len(results) = 2
    /\ results[1].parameters # results[2].parameters
    /\ results[1].num_examples # results[2].num_examples
    /\ global_model # global_state

\* aggregate_fit has returned or raised on a round that had results
RoundClosed == pc \in {"aggregated", "crashed"} /\ Len(results) >= 1

\* the selected layers on which a result's tensor has not the model's shape
Malformed(r) ==
    {i \in SelectedIdx : r.parameters[i].shape # global_state[keys[i]].shape}

WellFormed(r) == Malformed(r) = {}

\* C11: in an HE round where one client's update has a wrong shape on an
\* encrypted layer and another client's update is valid, the round commits,
\* and every encrypted layer is the aggregate of the valid clients alone
\* (the malformed client is in neither the sum nor the divisor).
C11_MalformedClientDropped ==
    LET valid == SelectSeq(results, WellFormed)
    IN  (use_he /\ RoundClosed /\ Len(valid) >= 1 /\ Len(valid) = Len(results) - 1) =>
            /\ pc = "aggregated"
            /\ \A i \in SelectedIdx :
                  global_model[keys[i]] = _aggregate_he(global_state, valid)[i]

\* C12: in an HE round where every client's update is malformed on an
\* encrypted layer, the round commits, that layer keeps its previous value
\* and the layers every client gave in the model's shape hold their aggregate.
C12_FailedLayerKeepsPreviousValue ==
    LET failed == {i \in SelectedIdx :
                      \A c \in 1..Len(results) : i \in Malformed(results[c])}
        sound == {i \in 1..Len(keys) :
                      \A c \in 1..Len(results) :
                          results[c].parameters[i].shape = global_state[keys[i]].shape}
        patched == [c \in 1..Len(results) |->
                       [results[c] EXCEPT !.parameters =
                           [k \in 1..Len(keys) |->
                               IF k \in sound THEN results[c].parameters[k]
                               ELSE global_state[keys[k]]]]]
    IN  (use_he /\ RoundClosed /\ failed # {}) =>
            /\ pc = "aggregated"
            /\ \A i \in failed : global_model[keys[i]] = global_state[keys[i]]
            /\ \A i \in sound :
                  global_model[keys[i]] = _aggregate_he(global_state, patched)[i]

\* the last entry of outcomes, the round that closed last
LastOutcome == outcomes[Len(outcomes)]

\* C13: a round whose results list is empty is discarded: aggregate_fit
\* returns no parameters, the global model is the one it found, the round
\* has no checkpoint (in memory of writes or on disk) and no history record;
\* and the round formed after a discarded round broadcasts the same model.
C13_EmptyRoundDiscarded ==
    /\ (pc = "aggregated" /\ Len(results) = 0) =>
          /\ Len(ret.parameters) = 0
          /\ global_model = global_state
          /\ parameters = _get_global_ndarrays(global_model)
          /\ files[CheckpointPath(server_round)] = NoFile
          /\ \A w \in 1..Len(ckpt_writes) : ckpt_writes[w].round # server_round
          /\ \A m \in 1..Len(round_metrics) : round_metrics[m].round # server_round
    /\ (pc \in {"configuring", "awaiting"} /\ Len(outcomes) >= 1
            /\ LastOutcome.result = "discarded") =>
          /\ server_round = LastOutcome.round + 1
          /\ parameters = _get_global_ndarrays(global_model)
          /\ files[CheckpointPath(LastOutcome.round)] = NoFile
          /\ \A c \in DOMAIN fit_ins : fit_ins[c].parameters = parameters

\* round 2 awaits its clients after round 1 was discarded
C13_Witness ==
    /\ server_round = 2
    /\ pc = "awaiting"
    /\ outcomes = <<[round |-> 1, result |-> "discarded"]>>
    /\ global_model = InitialState
    /\ DOMAIN fit_ins # {}

\* C14: every round that has closed without committing a model has a record
\* in round_metrics, and at the end of the session in the history file.
C14_FailedRoundsRecorded ==
    /\ pc \in {"aggregated", "configuring", "finishing", "complete"} =>
          \A o \in 1..Len(outcomes) :
              outcomes[o].result = "discarded" =>
                  \E m \in 1..Len(round_metrics) :
                      round_metrics[m].round = outcomes[o].round
    /\ pc = "complete" =>
          \A o \in 1..Len(outcomes) :
              outcomes[o].result = "discarded" =>
                  \E m \in 1..Len(files[HistoryPath].data) :
                      files[HistoryPath].data[m].round = outcomes[o].round

\* aggregate_fit is past its entry and has not returned
Aggregating == pc \in {"loading", "checkpointing", "saving", "recording"}

\* round r has closed: discarded, or committed with its checkpoint written
Closed(r) ==
    \E o \in 1..Len(outcomes) :
        /\ outcomes[o].round = r
        /\ \/ outcomes[o].result \in {"discarded", "cancelled"}
           \/ /\ outcomes[o].result = "committed"
              /\ files[CheckpointPath(r)].state = "complete"
              /\ \E w \in 1..Len(ckpt_writes) : ckpt_writes[w].round = r

\* C15: rounds close one at a time in increasing order; fit instructions of
\* a round exist only when every earlier round has closed (committed with its
\* checkpoint written, or discarded); and while aggregate_fit works on a
\* round, ciphertexts and instructions are that round's and no later round
\* has an outcome.
C15_RoundsSequential ==
    /\ \A o1, o2 \in 1..Len(outcomes) :
          o1 < o2 => outcomes[o1].round < outcomes[o2].round
    /\ \A c \in DOMAIN fit_ins :
          /\ fit_ins[c].config.server_round = server_round
          /\ \A r \in 1..(server_round - 1) : Closed(r)
    /\ (Aggregating \/ Len(encrypted_deltas) # 0) =>
          /\ \A o \in 1..Len(outcomes) : outcomes[o].round < server_round
                                              \/ pc \in {"aggregated", "crashed"}
          /\ \A r \in 1..(server_round - 1) : Closed(r)
          /\ Len(encrypted_deltas) \in {0, Len(results)}

\* round 2 aggregates ciphertexts after round 1 committed and was checkpointed
C15_Witness ==
    /\ server_round = 2
    /\ pc = "loading"
    /\ Len(encrypted_deltas) = 2
    /\ outcomes = <<[round |-> 1, result |-> "committed"]>>
    /\ files[CheckpointPath(1)].state = "complete"

\* C16: no checkpoint file and no final model file is ever in a partly
\* written state that a reader of its path could load.
C16_CheckpointWritesAtomic ==
    \A p \in Paths \ {HistoryPath} : files[p].state # "partial"

\* the model every round of the stopped session started from, and the model
\* the round's aggregation computed
PreviousModel == _set_global_ndarrays(parameters)
RoundResult == _set_global_ndarrays(new_ndarrays)

\* every snapshot on disk is whole, and the stopped round's snapshot, if
\* there is one, holds the round's complete result
SnapshotsWhole ==
    \A r \in 1..ROUNDS :
        /\ files[CheckpointPath(r)].state # "partial"
        /\ (r = server_round /\ files[CheckpointPath(r)].state = "complete") =>
              files[CheckpointPath(r)].data.model_state = RoundResult

\* C17: when the session is stopped with a round in flight, the global model
\* is the model of the previous round or the round's complete result, and so
\* is every snapshot on disk: none is partly written.
C17_StopLeavesNoMixture ==
    pc = "stopped" =>
        /\ SnapshotsWhole
        /\ global_model \in {PreviousModel, RoundResult}

\* the rounds whose aggregate has been committed and recorded
CommittedRounds ==
    {outcomes[o].round : o \in {n \in 1..Len(outcomes) : outcomes[n].result = "committed"}}

\* the writes of a checkpoint of round r
WritesOf(r) == {w \in 1..Len(ckpt_writes) : ckpt_writes[w].round = r}

\* the global model as it stands after round r, for the round in progress
\* and for the last round committed before it
ModelAfter(r) == IF r = server_round THEN RoundResult ELSE PreviousModel

\* the per-round half of C18: one checkpoint per aggregated round, written
\* after the commit and before the history record, holding the round number
\* and the model after the round
CheckpointPerRound ==
    /\ \A r \in 1..ROUNDS : Cardinality(WritesOf(r)) <= 1
    /\ \A r \in CommittedRounds : Cardinality(WritesOf(r)) = 1
    /\ \A m \in 1..Len(round_metrics) : WritesOf(round_metrics[m].round) # {}
    /\ \A w \in 1..Len(ckpt_writes) :
          LET r == ckpt_writes[w].round
          IN  /\ files[CheckpointPath(r)] = Written(ckpt_writes[w], TRUE)
              /\ DOMAIN ckpt_writes[w] = {"round", "model_state"}
              /\ DOMAIN ckpt_writes[w].model_state = KeySet
              /\ w = Len(ckpt_writes) =>
                    ckpt_writes[w].model_state = ModelAfter(r)
              /\ r = server_round => (loaded = Len(keys) /\ global_model = RoundResult)
    /\ pc \in {"checkpointing", "saving"} =>
          \A m \in 1..Len(round_metrics) : round_metrics[m].round # server_round

\* C18 as stated: the per-round checkpoints, and a final artifact that holds
\* a round number together with the full parameter set.
C18_FinalArtifactHasRoundNumber ==
    /\ CheckpointPerRound
    /\ pc = "complete" =>
          /\ files[FinalPath].state = "complete"
          /\ "round" \in DOMAIN files[FinalPath].data
          /\ files[FinalPath].data.model_state = global_model

\* C18, amended: the per-round checkpoints, and a final artifact that is the
\* full parameter set alone (the state_dict, with no round number).
C18_FinalArtifactIsStateDict ==
    /\ CheckpointPerRound
    /\ pc = "complete" =>
          /\ files[FinalPath] = Written(global_model, TRUE)
          /\ DOMAIN files[FinalPath].data = KeySet

\* a session of two aggregated rounds has ended
C18_Witness ==
    /\ pc = "complete"
    /\ CommittedRounds = 1..ROUNDS
    /\ Len(ckpt_writes) = ROUNDS
    /\ ckpt_writes[1].model_state # ckpt_writes[2].model_state
    /\ files[FinalPath].state = "complete"

\* a history record carries a count of the clients that contributed
HasClientCount(rec) ==
    \E f \in DOMAIN rec.metrics \cup DOMAIN rec :
        f \in {"num_clients", "num_participants", "participant_count",
               "contributing_clients"}

\* C19: at the end of the session the final snapshot is the model the last
\* aggregated round committed, and the history file is a list of one record
\* per aggregated round, in increasing round number, each with the round
\* number, the aggregation mode, the timing and the count of contributing
\* clients.
C19_FinalSnapshotAndHistory ==
    pc = "complete" =>
        LET history == files[HistoryPath].data
        IN  /\ files[FinalPath].data = global_model
            /\ global_model = PreviousModel
            /\ Len(history) = Cardinality(CommittedRounds)
            /\ \A m \in 1..Len(history) : history[m].round \in CommittedRounds
            /\ \A m1, m2 \in 1..Len(history) :
                  m1 < m2 => history[m1].round < history[m2].round
            /\ \A m \in 1..Len(history) :
                  /\ "aggregation" \in DOMAIN history[m].metrics
                  /\ "aggregation_time_sec" \in DOMAIN history[m].metrics
                  /\ HasClientCount(history[m])

\* C20: a round that has fit instructions out has at least min_fit_clients
\* selected clients, all of them connected; and while fewer clients than
\* MIN_FIT_CLIENTS or MIN_CLIENTS are connected the coordinator waits in the
\* configuration of its first round: no client is instructed and no round
\* has been started or used up.
C20_SelectionMeetsMinimum ==
    /\ DOMAIN fit_ins # {} =>
          /\ Cardinality(DOMAIN fit_ins) >= min_fit_clients
          /\ DOMAIN fit_ins \subseteq available
    /\ (Cardinality(available) < min_fit_clients
            \/ Cardinality(available) < min_available_clients) =>
          /\ DOMAIN fit_ins = {}
          /\ pc \in {"configuring", "he_utils"}
          /\ server_round = 1
          /\ outcomes = <<>>

\* fit has returned
FitReturned == ids_client.pc = "returned"

\* C21: the sample count fit returns is the number of samples local_train
\* used in the round, and that number is at most
\* local_epochs x max_batches x batch_size.
C21_ReturnedCountIsSamplesUsed ==
    FitReturned =>
        /\ ids_client.result.num_examples = ids_client.result.metrics.num_samples
        /\ ids_client.result.metrics.num_samples
              <= ids_client.epochs * ids_client.max_batches * BATCH_SIZE

\* C22: when a batch of local training had a NaN loss, fit returns the
\* parameters held before the failing step, and never a non-finite value.
C22_LastGoodParametersReturned ==
    FitReturned =>
        /\ ~HasNonFinite(set_parameters(ids_client.result.parameters))
        /\ ids_client.failed =>
              ids_client.result.parameters = get_parameters(ids_client.last_good)

\* the sum over the clients of f(element j of the client's delta of key)
RECURSIVE TripSum(_, _, _, _)
TripSum(f(_), key, j, k) ==
    IF k = 0 THEN Num(0)
    ELSE FAdd(TripSum(f, key, j, k - 1), f(he_trip.deltas[k][key].data[j]))

Clamp(x) == Clip(x, -10, 10)
ClampSanitised(x) == Clip(NanToNum(x), -10, 10)

\* the round trip gives, in the delta's shape, the sum over the clients of f
RoundTripGives(f(_)) ==
    he_trip.pc = "decrypted" =>
        \A key \in DOMAIN he_trip.deltas[1] :
            /\ key \in DOMAIN he_trip.out
            /\ he_trip.out[key].shape = he_trip.deltas[1][key].shape
            /\ \A j \in 1..he_trip.out[key].shape :
                  he_trip.out[key].data[j] = TripSum(f, key, j, Len(he_trip.deltas))

\* C23 as stated: decrypting the encrypted sum of the encrypt_update outputs
\* gives a tensor of the layer's shape equal to the sum of clamp(d_i, -10, 10),
\* for any deltas.
C23_RoundTripIsSumOfClamped == RoundTripGives(Clamp)

\* C23, amended: the round trip gives the sum of the clamped deltas in which
\* every non-finite element (NaN, +Inf, -Inf) counts as 0.
C23_RoundTripIsSumOfSanitisedClamped == RoundTripGives(ClampSanitised)

\* two clients' deltas with an element beyond the bound and non-finite ones
C23_Witness ==
    /\ he_trip.pc = "decrypted"
    /\ Len(he_trip.deltas) = 2
    /\ he_trip.deltas[1]["fc.weight"].data = <<Num(50), NaN>>
    /\ he_trip.deltas[2]["fc.weight"].data = <<Num(1), PInf>>
    /\ he_trip.out["fc.weight"].data = <<Num(11), Num(0)>>

\* the aggregation mode of the session
SessionMode == IF use_he THEN "fedavg_he_ckks" ELSE "fedavg_plain"

\* C24: the CKKS context is created once, at construction, and only when
\* use_he is set; every round's encryption and decryption uses that context
\* with its parameters unchanged; and every aggregated round of the session
\* has the session's one mode.
C24_ContextAndModeFixed ==
    /\ he_session.created = (IF use_he THEN 1 ELSE 0)
    /\ he_session.ckks_ctx = (IF use_he THEN CkksContext ELSE NoContext)
    /\ ~use_he => Len(he_session.used) = 0
    /\ \A u \in 1..Len(he_session.used) :
          he_session.used[u].ctx = StrategyContext(TRUE).ckks_ctx
    /\ \A m \in 1..Len(round_metrics) :
          /\ round_metrics[m].metrics.aggregation = SessionMode
          /\ use_he => \E u \in 1..Len(he_session.used) :
                          he_session.used[u].round = round_metrics[m].round

\* a session of two aggregated HE rounds
C24_Witness ==
    /\ use_he
    /\ Len(round_metrics) = 2
    /\ Len(he_session.used) = 2
    /\ he_session.used[1].round = 1 /\ he_session.used[2].round = 2

\* the rows of fl_rounds recorded under round number n
RecordedAs(n) ==
    {i \in 1..Len(backend.fl_rounds) : backend.fl_rounds[i].round_number = n}

\* C25: GET /rounds/{n} answers 200 with a recorded round of number n and the
\* client metrics of that round whenever a round of that number has been
\* recorded, and 404 exactly when none has.
C25_GetRoundReturnsRecorded ==
    backend.response.op = "get_round" =>
        LET n == backend.response.arg
        IN  /\ RecordedAs(n) # {} =>
                  /\ backend.response.status = 200
                  /\ \E i \in RecordedAs(n) :
                        /\ backend.response.body.round = backend.fl_rounds[i]
                        /\ backend.response.body.client_metrics =
                              get_client_metrics_for_round(backend, backend.fl_rounds[i].id)
            /\ backend.response.status = 404 <=> RecordedAs(n) = {}

\* C26: a POST /clients whose client_id is registered already is answered 409
\* and leaves the table as it was; a first registration is answered 201 and
\* adds the one row.
C26_DuplicateRegistrationRejected ==
    backend.response.op = "register_client" =>
        LET before == backend.response.before
            known == \E i \in 1..Len(before) :
                        before[i].client_id = backend.response.arg
        IN  IF known
            THEN /\ backend.response.status = 409
                 /\ backend.fl_clients = before
            ELSE /\ backend.response.status = 201
                 /\ Len(backend.fl_clients) = Len(before) + 1
                 /\ SubSeq(backend.fl_clients, 1, Len(before)) = before
                 /\ backend.fl_clients[Len(before) + 1].client_id = backend.response.arg

\* C27: at the start of every round the parameters the server broadcasts are,
\* layer for layer, the state of the strategy's global model, and the state
\* _aggregate_he computes its deltas against is that same state.
C27_BroadcastIsGlobalModel ==
    /\ pc \in {"configuring", "awaiting"} =>
          /\ parameters = _get_global_ndarrays(global_model)
          /\ \A c \in DOMAIN fit_ins :
                /\ fit_ins[c].parameters = _get_global_ndarrays(global_model)
                /\ \A i \in 1..Len(keys) :
                      fit_ins[c].parameters[i] = global_model[keys[i]]
    /\ (Aggregating \/ RoundClosed) =>
          /\ global_state = _set_global_ndarrays(parameters)
          /\ \A c \in DOMAIN fit_ins :
                _set_global_ndarrays(fit_ins[c].parameters) = global_state

\* round 2 is broadcast after round 1 committed a new model in HE mode
C27_Witness ==
    /\ server_round = 2
    /\ pc = "awaiting"
    /\ use_he
    /\ outcomes = <<[round |-> 1, result |-> "committed"]>>
    /\ global_model # InitialState
    /\ DOMAIN fit_ins # {}

\* C28: when a step of the round's aggregation raises, every layer of the
\* global model is as it was before the round, and the round has left no
\* checkpoint and no history record.
C28_CommitAllOrNothing ==
    pc = "crashed" =>
        /\ \A i \in 1..Len(keys) : global_model[keys[i]] = global_state[keys[i]]
        /\ files[CheckpointPath(server_round)] = NoFile
        /\ \A w \in 1..Len(ckpt_writes) : ckpt_writes[w].round # server_round
        /\ \A m \in 1..Len(round_metrics) : round_metrics[m].round # server_round

\* a start_simulation call arrives in the step
StartArrives ==
    /\ Len(simulation'.tasks) = Len(simulation.tasks) + 1
    /\ simulation'.tasks[Len(simulation'.tasks)].op = "start"

\* the call that arrives is rejected and _sim is as it was
Rejected ==
    /\ simulation'.tasks[Len(simulation'.tasks)].pc = "raised"
    /\ simulation'.state = simulation.state
    /\ simulation'.config = simulation.config
    /\ simulation'.clients = simulation.clients
    /\ simulation'.started_at = simulation.started_at
    /\ simulation'.uptime_seconds = simulation.uptime_seconds

\* C29: a start_simulation call that arrives while a simulation is RUNNING,
\* or while another start is in flight in state STARTING, is rejected and
\* leaves the config, the client list and the containers as they were.
C29_OneSimulationAtATime ==
    [][(StartArrives /\ simulation.state \in {"running", "starting"}) => Rejected]_vars

\* task t is a stop_simulation coroutine that returns in the step
StopReturns(t) ==
    /\ simulation.tasks[t].op = "stop"
    /\ simulation.tasks[t].pc = "status"
    /\ simulation'.tasks[t].pc = "returned"

\* task t is a stop_simulation coroutine whose body runs in the step
StopRuns(t) ==
    \/ /\ t = Len(simulation.tasks) + 1
       /\ t = Len(simulation'.tasks)
       /\ simulation'.tasks[t].op = "stop"
       /\ simulation'.tasks[t].origin = "api"
    \/ /\ t <= Len(simulation.tasks)
       /\ simulation.tasks[t].pc = "scheduled"
       /\ simulation'.tasks[t].pc # "scheduled"

\* no start_simulation call has arrived after task t was created
NoLaterStart(t) ==
    \A u \in (t + 1)..Len(simulation'.tasks) : simulation'.tasks[u].op # "start"

\* _sim after a stop: IDLE, start time and uptime cleared, no container id
Stopped(s) ==
    /\ s.state = "idle"
    /\ s.started_at = 0
    /\ s.uptime_seconds = 0
    /\ \A i \in 1..Len(s.clients) : s.clients[i].container_id = 0

\* C30: stop_simulation is accepted only in state RUNNING or ERROR and
\* otherwise raises and changes nothing; when it completes, whether called
\* by the API or scheduled by get_status and whether or not a container's
\* stop raised, the state is IDLE, started_at and uptime are cleared and no
\* client entry has a container id (no start having arrived after the stop).
C30_StopLeavesIdle ==
    [][\A t \in 1..Len(simulation'.tasks) :
          /\ (StopRuns(t) /\ simulation.state \notin {"running", "error"}) =>
                /\ simulation'.tasks[t].pc = "raised"
                /\ simulation'.state = simulation.state
                /\ simulation'.config = simulation.config
                /\ simulation'.clients = simulation.clients
                /\ simulation'.started_at = simulation.started_at
                /\ simulation'.uptime_seconds = simulation.uptime_seconds
          /\ (StopRuns(t) /\ simulation.state \in {"running", "error"}) =>
                simulation'.tasks[t].pc = "status"
          /\ (t <= Len(simulation.tasks) /\ StopReturns(t) /\ NoLaterStart(t)) =>
                Stopped(simulation')]_vars

====
